---------------------------- MODULE Spec2Model ----------------------------
(***************************************************************************)
(* A model of the Kiseki thumbnail handler:                                *)
(*   src/src/thumb_win32.cc      CKisekiThumb (Initialize, GetThumbnail)   *)
(*   src/src/thumb_win32_dll.cc  CClassFactory, DllCanUnloadNow, ...       *)
(*                                                                         *)
(* Three specifications share the variables:                               *)
(*   Spec      one initialized-by-the-host provider whose GetThumbnail is  *)
(*             run statement group by statement group;                     *)
(*   SpecDll   the module's class factories, providers and server locks;   *)
(*   SpecInit  providers, their reference counts and Initialize.           *)
(***************************************************************************)
EXTENDS Integers, Sequences, FiniteSets, TLC

(***************************************************************************)
(* Bounds of the model.                                                    *)
(***************************************************************************)
\* Pieces a document's text part is concatenated from.
MaxPieces == 3
\* GetThumbnail calls made on the one provider of Spec.
MaxCalls == 2
\* sizeof(chunk) of GetThumbnail, 4096 in the source, scaled to the model's
\* short documents so that a document takes several Read calls and the
\* marker can straddle two chunks.
ChunkSize == 8
\* Objects of SpecDll and SpecInit.
MaxFactories == 1
MaxThumbs == 2
MaxStreams == 2
\* Outstanding references a client takes on one object.
MaxRef == 2
\* Outstanding LockServer(TRUE) calls.
MaxLocks == 1

(***************************************************************************)
(* Unsigned integers wider than TLC's: little-endian base-256 digits.      *)
(* A UINT of the source (4 bytes) is a Big whose digits 5..NDigits are 0;  *)
(* the digits above hold the true (unwrapped) value of a product.          *)
(***************************************************************************)
\* Digits of a Big: enough for the true value of height * stride.
NDigits == 9

BigZero == [i \in 1..NDigits |-> 0]

\* The number hi * 2^16 + lo, for hi, lo < 2^16.
U32(hi, lo) ==
  [i \in 1..NDigits |->
     CASE i = 1 -> lo % 256
       [] i = 2 -> lo \div 256
       [] i = 3 -> hi % 256
       [] i = 4 -> hi \div 256
       [] OTHER -> 0]

\* Schoolbook addition, digit i on with carry c.
RECURSIVE AddFrom(_, _, _, _)
AddFrom(a, b, i, c) ==
  IF i > NDigits THEN <<>>
  ELSE LET t == a[i] + b[i] + c
       IN  <<t % 256>> \o AddFrom(a, b, i + 1, t \div 256)

BigAdd(a, b) == AddFrom(a, b, 1, 0)

RECURSIVE MulDigitFrom(_, _, _, _)
MulDigitFrom(a, k, i, c) ==
  IF i > NDigits THEN <<>>
  ELSE LET t == a[i] * k + c
       IN  <<t % 256>> \o MulDigitFrom(a, k, i + 1, t \div 256)

\* a * k for a digit k.
BigMulDigit(a, k) == MulDigitFrom(a, k, 1, 0)

BigShift(a, n) ==
  [i \in 1..NDigits |-> IF i <= n THEN 0 ELSE a[i-n]]

\* Schoolbook multiplication: a * b[j..], b's digit j weighing 256^(j-1).
RECURSIVE MulFrom(_, _, _)
MulFrom(a, b, j) ==
  IF j > NDigits THEN BigZero
  ELSE LET rest == MulFrom(a, b, j + 1)
       IN  IF b[j] = 0 THEN rest
           ELSE LET part == BigShift(BigMulDigit(a, b[j]), j - 1)
                IN  BigAdd(part, rest)

BigMul(a, b) == MulFrom(a, b, 1)

RECURSIVE LessFrom(_, _, _)
LessFrom(a, b, i) ==
  IF i = 0 THEN FALSE
  ELSE IF a[i] # b[i] THEN a[i] < b[i]
  ELSE LessFrom(a, b, i-1)

BigLess(a, b) == LessFrom(a, b, NDigits)
BigLeq(a, b) == ~BigLess(b, a)

\* The value as a UINT holds it: modulo 2^32.
Trunc32(a) == [i \in 1..NDigits |-> IF i <= 4 THEN a[i] ELSE 0]
FitsUint(a) == Trunc32(a) = a

\* x & ~3
AndNot3(a) == [a EXCEPT ![1] = a[1] - (a[1] % 4)]

Big3 == U32(0, 3)

(***************************************************************************)
(* The payload locator of GetThumbnail.                                    *)
(***************************************************************************)
\* const std::string endTag = "</roblox>";
endTag == <<60, 47, 114, 111, 98, 108, 111, 120, 62>>

\* std::equal of endTag against buf at iterator offset i, from needle
\* index k on.
RECURSIVE MatchFrom(_, _, _)
MatchFrom(buf, i, k) ==
  IF k > Len(endTag) THEN TRUE
  ELSE IF buf[i + k] # endTag[k] THEN FALSE
  ELSE MatchFrom(buf, i, k + 1)

\* std::search(buffer.begin(), buffer.end(), endTag.begin(), endTag.end()):
\* the offset from begin() of the first match, or Len(buf), the offset of
\* end(), when there is none.
RECURSIVE SearchFrom(_, _)
SearchFrom(buf, i) ==
  IF i + Len(endTag) > Len(buf) THEN Len(buf)
  ELSE IF MatchFrom(buf, i, 1) THEN i
  ELSE SearchFrom(buf, i + 1)

Search(buf) == SearchFrom(buf, 0)

\* std::advance(it, endTag.length() + 1) with the separator forgotten.
AdvancedIt_NoSeparator(i) == i + Len(endTag)

\* std::advance(it, endTag.length() + 1);
AdvancedIt(i) == i + Len(endTag) + 1

\* if (it >= buffer.end())
NoDataAfterTag(i, buf) == i >= Len(buf)

\* std::vector<unsigned char> jpegData(it, buffer.end());
RangeToEnd(i, buf) == SubSeq(buf, i + 1, Len(buf))

(***************************************************************************)
(* The decoder's arithmetic.                                               *)
(***************************************************************************)
\* UINT stride = (width * 3 + 3) & ~3;   in UINT arithmetic
Stride(w) == AndNot3(Trunc32(BigAdd(Trunc32(BigMulDigit(w, 3)), Big3)))

\* thumb.data.resize(height * stride);   the product is a UINT
DataSize(h, s) == Trunc32(BigMul(h, s))

(***************************************************************************)
(* The environment: documents, and the imaging component (WIC).            *)
(***************************************************************************)
\* The frames the imaging component can report, keyed by the first byte of
\* the payload (as an image's header decides its frame): width, height and
\* the bytes per pixel of the frame's native pixel format (8bpp gray,
\* 24bpp BGR, 32bpp CMYK).  GetSize returns two UINTs, whatever they are.
FrameTable ==
  << [w |-> U32(0, 1),         h |-> U32(0, 1),     bytespp |-> 3],
     [w |-> U32(0, 2),         h |-> U32(0, 3),     bytespp |-> 3],
     [w |-> U32(0, 3),         h |-> U32(0, 2),     bytespp |-> 1],
     [w |-> U32(0, 4),         h |-> U32(0, 1),     bytespp |-> 3],
     [w |-> U32(0, 5),         h |-> U32(0, 2),     bytespp |-> 3],
     [w |-> U32(0, 200),       h |-> U32(0, 100),   bytespp |-> 3],
     [w |-> U32(0, 101),       h |-> U32(0, 1),     bytespp |-> 3],
     [w |-> U32(0, 4),         h |-> U32(0, 1),     bytespp |-> 4],
     [w |-> U32(0, 0),         h |-> U32(0, 1),     bytespp |-> 3],
     [w |-> U32(0, 7),         h |-> U32(0, 0),     bytespp |-> 3],
     [w |-> U32(0, 65535),     h |-> U32(0, 65535), bytespp |-> 3],
     [w |-> U32(21845, 21846), h |-> U32(0, 1),     bytespp |-> 3],
     [w |-> U32(32767, 65535), h |-> U32(0, 1),     bytespp |-> 1] >>

\* Whether the imaging component finds a decoder for the payload.
Recognised(payload) == payload # <<>> /\ payload[1] \in DOMAIN FrameTable
FrameOf(payload) == FrameTable[payload[1]]

\* a - 1, for a # 0.
BigDec(a) ==
  LET j == CHOOSE j \in 1..NDigits :
             a[j] # 0 /\ \A k \in 1..(j-1) : a[k] = 0
  IN  [i \in 1..NDigits |->
         IF i < j THEN 255 ELSE IF i = j THEN a[i] - 1 ELSE a[i]]

\* IWICBitmapSource::CopyPixels rejects a stride shorter than a row of the
\* frame's pixel format and a buffer shorter than the rows it writes.
RowBytes(frame) == BigMulDigit(frame.w, frame.bytespp)
BytesWritten(frame, cbStride) ==
  IF frame.h = BigZero THEN BigZero
  ELSE BigAdd(BigMul(BigDec(frame.h), cbStride), RowBytes(frame))
CopyPixelsAccepts(frame, cbStride, cbBufferSize) ==
  /\ BigLeq(RowBytes(frame), cbStride)
  /\ BigLeq(BytesWritten(frame, cbStride), cbBufferSize)

\* The text a document is made of: the closing tag, the separator, and a
\* byte that starts the tag without completing it.
TextPieces == {endTag, <<0>>, <<60>>}

RECURSIVE Texts(_)
Texts(n) ==
  IF n = 0 THEN {<<>>}
  ELSE LET T == Texts(n - 1)
       IN  T \cup {t \o p : t \in T, p \in TextPieces}

Images == {<<>>} \cup {<<k>> : k \in DOMAIN FrameTable}

\* The contents of the stream the host hands to Initialize.
Docs == {t \o i : t \in Texts(MaxPieces), i \in Images}

(***************************************************************************)
(* State.                                                                  *)
(***************************************************************************)
VARIABLES
  \* thumb_win32_dll.cc
  g_cRefModule,  \* long g_cRefModule
  factories,     \* the CClassFactory objects: state and _cRef
  serverLocks,   \* LockServer(TRUE) calls not yet undone (the client's count)
  unloadAnswer,  \* what DllCanUnloadNow answered, if it was the last call
  \* thumb_win32.cc, CKisekiThumb
  thumbs,        \* the CKisekiThumb objects: state, _cRef, _pStream
  streamRefs,    \* references the providers hold on each IStream
  lastInit,      \* the last Initialize call and its result
  \* the stream given to provider This, and GetThumbnail's frame
  streamData,    \* the stream's bytes
  streamPos,     \* the stream's seek pointer
  pc,            \* where GetThumbnail stands
  hr,            \* HRESULT hr
  buffer,        \* std::vector<char> buffer
  it,            \* auto it, as an offset from buffer.begin(); -1 before
  jpegData,      \* std::vector<unsigned char> jpegData
  jpegAlive,     \* jpegData has been constructed and not yet destroyed
  wic,           \* pFactory, pStream, pDecoder, pFrame
  misuse,        \* uses and releases of a WIC pointer that did not hold
  frame,         \* what the frame reports: width, height, pixel format
  stride,        \* UINT stride
  thumb,         \* Thumbnail thumb: width, height, data.size(), and the
                 \* payload the pixels were decoded from
  phbmp,         \* *phbmp
  pdwAlpha,      \* *pdwAlpha
  steps,         \* the steps this call ran, each with its success
  extFail,       \* a collaborator failed in this call for its own reasons
  nCalls,        \* GetThumbnail calls returned
  ret,           \* what the last call returned to the caller
  prevRet,       \* what the call before it returned
  seenFail       \* the locate failures seen: cause and returned HRESULT

dllVars == <<g_cRefModule, factories, serverLocks, unloadAnswer>>
thumbVars == <<thumbs, streamRefs, lastInit>>
streamVars == <<streamData, streamPos>>
frameVars == <<pc, hr, buffer, it, jpegData, jpegAlive, wic, misuse, frame,
               stride, thumb, phbmp, pdwAlpha, steps, extFail>>
callVars == <<nCalls, ret, prevRet, seenFail>>
pipeVars == <<streamVars, frameVars, callVars>>
vars == <<dllVars, thumbVars, pipeVars>>

(***************************************************************************)
(* thumb_win32_dll.cc: the module reference count and the class factory.   *)
(***************************************************************************)
\* void DllAddRef() { InterlockedIncrement(&g_cRefModule); }
DllAddRef(g) == g + 1

\* void DllRelease() { InterlockedDecrement(&g_cRefModule); }
DllRelease(g) == g - 1

FreeFactory == [state |-> "free", _cRef |-> 0]
FreeThumb == [state |-> "free", _cRef |-> 0, _pStream |-> 0,
              taken |-> 0, given |-> 0]
NoInit == [t |-> 0, s |-> 0, hr |-> "none", before |-> 0, after |-> 0,
           refs |-> 0]

\* operator new hands out the objects in order.
NextFree(objs) ==
  CHOOSE i \in DOMAIN objs :
    objs[i].state = "free" /\ \A j \in DOMAIN objs : j < i => objs[j].state # "free"
HasFree(objs) == \E i \in DOMAIN objs : objs[i].state = "free"

\* CKisekiThumb(): _cRef(1), _pStream(nullptr); QueryInterface(riid, ppv)
\* takes a second reference when riid is one of the two interfaces;
\* pNew->Release() drops the first, and deletes an object nobody got.
ThumbAfterCreate(riidOk) ==
  IF riidOk
  THEN [state |-> "alive", _cRef |-> 1, _pStream |-> 0, taken |-> 0, given |-> 0]
  ELSE [state |-> "deleted", _cRef |-> 0, _pStream |-> 0, taken |-> 0, given |-> 0]

\* HRESULT CKisekiThumb_CreateInstance(REFIID riid, void **ppv)
CKisekiThumb_CreateInstance(allocOk, riidOk) ==
  /\ HasFree(thumbs)
  /\ thumbs' = IF allocOk
               THEN [thumbs EXCEPT ![NextFree(thumbs)] = ThumbAfterCreate(riidOk)]
               ELSE thumbs
  /\ unloadAnswer' = "none"
  /\ UNCHANGED <<g_cRefModule, factories, serverLocks, streamRefs, lastInit,
                 pipeVars>>

\* STDAPI DllGetClassObject(REFCLSID clsid, REFIID riid, void **ppv), that is
\* CClassFactory::CreateInstance over c_rgClassObjectInit: the constructor
\* calls DllAddRef; when QueryInterface fails the Release that follows
\* deletes the factory, and the destructor calls DllRelease.
DllGetClassObject(clsidOk, allocOk, riidOk) ==
  /\ HasFree(factories)
  /\ IF clsidOk /\ allocOk
     THEN LET f == NextFree(factories)
              g1 == DllAddRef(g_cRefModule)
          IN  IF riidOk
              THEN /\ factories' = [factories EXCEPT
                                      ![f] = [state |-> "alive", _cRef |-> 1]]
                   /\ g_cRefModule' = g1
              ELSE /\ factories' = [factories EXCEPT
                                      ![f] = [state |-> "deleted", _cRef |-> 0]]
                   /\ g_cRefModule' = DllRelease(g1)
     ELSE UNCHANGED <<factories, g_cRefModule>>
  /\ unloadAnswer' = "none"
  /\ UNCHANGED <<serverLocks, thumbVars, pipeVars>>

\* CClassFactory::AddRef
FactoryAddRef(f) ==
  /\ factories[f].state = "alive"
  /\ factories[f]._cRef < MaxRef
  /\ factories' = [factories EXCEPT ![f]._cRef = @ + 1]
  /\ unloadAnswer' = "none"
  /\ UNCHANGED <<g_cRefModule, serverLocks, thumbVars, pipeVars>>

\* CClassFactory::Release; ~CClassFactory() { DllRelease(); }
FactoryRelease(f) ==
  /\ factories[f].state = "alive"
  /\ LET cRef == factories[f]._cRef - 1
     IN  IF cRef = 0
         THEN /\ factories' = [factories EXCEPT
                                 ![f] = [state |-> "deleted", _cRef |-> 0]]
              /\ g_cRefModule' = DllRelease(g_cRefModule)
         ELSE /\ factories' = [factories EXCEPT ![f]._cRef = cRef]
              /\ UNCHANGED g_cRefModule
  /\ unloadAnswer' = "none"
  /\ UNCHANGED <<serverLocks, thumbVars, pipeVars>>

\* CClassFactory::CreateInstance(punkOuter, riid, ppv)
FactoryCreateInstance(f, punkOuter, allocOk, riidOk) ==
  /\ factories[f].state = "alive"
  /\ IF punkOuter
     THEN /\ unloadAnswer' = "none"
          /\ UNCHANGED <<g_cRefModule, factories, serverLocks, thumbVars,
                         pipeVars>>
     ELSE CKisekiThumb_CreateInstance(allocOk, riidOk)

\* CClassFactory::LockServer(fLock).  A client undoes only locks it holds.
LockServer(f, fLock) ==
  /\ factories[f].state = "alive"
  /\ IF fLock
     THEN /\ serverLocks < MaxLocks
          /\ g_cRefModule' = DllAddRef(g_cRefModule)
          /\ serverLocks' = serverLocks + 1
     ELSE /\ serverLocks > 0
          /\ g_cRefModule' = DllRelease(g_cRefModule)
          /\ serverLocks' = serverLocks - 1
  /\ unloadAnswer' = "none"
  /\ UNCHANGED <<factories, thumbVars, pipeVars>>

\* STDAPI DllCanUnloadNow()
DllCanUnloadNow ==
  /\ unloadAnswer' = IF g_cRefModule = 0 THEN "S_OK" ELSE "S_FALSE"
  /\ UNCHANGED <<g_cRefModule, factories, serverLocks, thumbVars, pipeVars>>

(***************************************************************************)
(* thumb_win32.cc: CKisekiThumb's references and Initialize.               *)
(***************************************************************************)
\* CKisekiThumb::AddRef
ThumbAddRef(t) ==
  /\ thumbs[t].state = "alive"
  /\ thumbs[t]._cRef < MaxRef
  /\ thumbs' = [thumbs EXCEPT ![t]._cRef = @ + 1]
  /\ unloadAnswer' = "none"
  /\ UNCHANGED <<g_cRefModule, factories, serverLocks, streamRefs, lastInit,
                 pipeVars>>

\* virtual ~CKisekiThumb() { if (_pStream) { _pStream->Release(); } }
DestructorReleases(t) == thumbs[t]._pStream # 0

\* CKisekiThumb::Release: delete this when the count reaches zero.  Between
\* calls only: GetThumbnail runs on the caller's reference.
ThumbRelease(t) ==
  /\ thumbs[t].state = "alive"
  /\ pc = "idle"
  /\ LET cRef == thumbs[t]._cRef - 1
         s == thumbs[t]._pStream
     IN  IF cRef = 0
         THEN IF DestructorReleases(t)
              THEN /\ thumbs' = [thumbs EXCEPT ![t].state = "deleted",
                                               ![t]._cRef = 0,
                                               ![t].given = @ + 1]
                   /\ streamRefs' = IF s = 0 THEN streamRefs
                                    ELSE [streamRefs EXCEPT ![s] = @ - 1]
              ELSE /\ thumbs' = [thumbs EXCEPT ![t].state = "deleted",
                                               ![t]._cRef = 0]
                   /\ UNCHANGED streamRefs
         ELSE /\ thumbs' = [thumbs EXCEPT ![t]._cRef = cRef]
              /\ UNCHANGED streamRefs
  /\ unloadAnswer' = "none"
  /\ UNCHANGED <<g_cRefModule, factories, serverLocks, lastInit, pipeVars>>

\* Initialize without its guard.
InitializeRefuses_Never(t) == FALSE

\* if (_pStream != nullptr)   /* Can only be initialized once. */
InitializeRefuses(t) == thumbs[t]._pStream # 0

\* IFACEMETHODIMP CKisekiThumb::Initialize(IStream *pStream, DWORD): stream s
\* is offered; qiOk is whether its QueryInterface for IStream succeeds (it
\* stores the pointer and takes a reference, or stores nullptr).  lastInit
\* records the call as its caller can observe it.
Initialize(t, s, qiOk) ==
  /\ thumbs[t].state = "alive"
  /\ pc = "idle"
  /\ IF InitializeRefuses(t)
     THEN UNCHANGED <<thumbs, streamRefs>>
     ELSE IF qiOk
     THEN /\ thumbs' = [thumbs EXCEPT ![t]._pStream = s, ![t].taken = @ + 1]
          /\ streamRefs' = [streamRefs EXCEPT ![s] = @ + 1]
     ELSE /\ thumbs' = [thumbs EXCEPT ![t]._pStream = 0]
          /\ UNCHANGED streamRefs
  /\ lastInit' = [t |-> t, s |-> s,
                  hr |-> IF InitializeRefuses(t) THEN "E_UNEXPECTED"
                         ELSE IF qiOk THEN "S_OK" ELSE "E_NOINTERFACE",
                  before |-> thumbs[t]._pStream,
                  after |-> thumbs'[t]._pStream,
                  refs |-> streamRefs'[s] - streamRefs[s]]
  /\ unloadAnswer' = "none"
  /\ UNCHANGED <<g_cRefModule, factories, serverLocks, pipeVars>>

(***************************************************************************)
(* thumb_win32.cc: CKisekiThumb::GetThumbnail, on provider This, whose     *)
(* stream is the one of streamData and streamPos.                          *)
(***************************************************************************)
This == 1

WicObjects == {"pFactory", "pStream", "pDecoder", "pFrame"}
NoWic == [o \in WicObjects |-> "null"]
NoFrame == [w |-> BigZero, h |-> BigZero, bytespp |-> 0]
NoThumb == [width |-> BigZero, height |-> BigZero, size |-> BigZero,
            resized |-> FALSE, pixels |-> <<>>]
NoRet == [valid |-> FALSE, hr |-> "none", phbmp |-> "untouched",
          pdwAlpha |-> "untouched", bitmap |-> NoThumb, ext |-> FALSE]

\* The FAILED macro with the check forgotten.
FAILED_Never(h) == FALSE

\* FAILED(hr): the severity bit; S_OK and S_FALSE are successes.
FAILED(h) == h \notin {"S_OK", "S_FALSE"}

\* SUCCEEDED(hr)
SUCCEEDED(h) == h \in {"S_OK", "S_FALSE"}

Min(a, b) == IF a < b THEN a ELSE b

\* p->Release() on a pointer: a reference that is held is given back;
\* anything else is a release of what was not acquired.
RECURSIVE ReleaseAll(_, _)
ReleaseAll(w, ptrs) ==
  IF ptrs = <<>> THEN w
  ELSE LET o == Head(ptrs)
       IN  ReleaseAll([w EXCEPT ![o] = IF @ = "held" THEN "released" ELSE "over"],
                      Tail(ptrs))

\* The failure exit after GetSize and the common exit forgetting pDecoder.
CleanupOn_LeakDecoder(step) ==
  CASE step = "CreateStream" -> <<"pFactory">>
    [] step \in {"InitializeFromMemory", "CreateDecoder"} ->
         <<"pStream", "pFactory">>
    [] step = "GetFrame" -> <<"pDecoder", "pStream", "pFactory">>
    [] step \in {"GetSize", "CopyPixels"} -> <<"pFrame", "pStream", "pFactory">>
    [] OTHER -> <<>>

\* The Release calls of each exit, in the order written: lines 130, 136-137,
\* 146-147, 155-157, 165-168, and 182-185 after CopyPixels.
CleanupOn(step) ==
  CASE step = "CreateStream" -> <<"pFactory">>
    [] step \in {"InitializeFromMemory", "CreateDecoder"} ->
         <<"pStream", "pFactory">>
    [] step = "GetFrame" -> <<"pDecoder", "pStream", "pFactory">>
    [] step \in {"GetSize", "CopyPixels"} ->
         <<"pFrame", "pDecoder", "pStream", "pFactory">>
    [] OTHER -> <<>>

Step(name, h) == [step |-> name, hr |-> h]

\* A method call through a pointer that no longer (or not yet) holds.
Misused(ptrs) == \E o \in ptrs : wic[o] # "held"

\* return hr;  the locals, jpegData among them, are destroyed.
Return(h) ==
  /\ pc' = "done"
  /\ hr' = h
  /\ jpegAlive' = FALSE

\* Entry: HRESULT hr = S_FALSE; the caller's *phbmp and *pdwAlpha hold what
\* the caller left there.
GT_Enter ==
  /\ pc = "idle"
  /\ thumbs[This].state = "alive"
  /\ thumbs[This]._pStream # 0
  /\ nCalls < MaxCalls
  /\ pc' = "read"
  /\ hr' = "S_FALSE"
  /\ UNCHANGED <<buffer, it, jpegData, jpegAlive, wic, misuse, frame, stride,
                 thumb, phbmp, pdwAlpha, steps, extFail>>
  /\ UNCHANGED <<dllVars, thumbVars, streamVars, callVars>>

\* One turn of the do-while: _pStream->Read(chunk, sizeof(chunk), &bytesRead)
\* reads from the seek pointer on and moves it; then if (FAILED(hr)) return.
GT_Read(ok) ==
  /\ pc = "read"
  /\ LET n == IF ok THEN Min(ChunkSize, Len(streamData) - streamPos) ELSE 0
         h == IF ~ok THEN "STG_E_READFAULT"
              ELSE IF n = ChunkSize THEN "S_OK" ELSE "S_FALSE"
     IN  /\ streamPos' = streamPos + n
         /\ buffer' = IF SUCCEEDED(h) /\ n > 0
                      THEN buffer \o SubSeq(streamData, streamPos + 1, streamPos + n)
                      ELSE buffer
         /\ extFail' = (extFail \/ ~ok)
         /\ IF SUCCEEDED(h) /\ n > 0
            THEN /\ pc' = "read"
                 /\ hr' = h
                 /\ UNCHANGED <<steps, jpegAlive>>
            ELSE /\ steps' = Append(steps, Step("Read", h))
                 /\ IF FAILED(h)
                    THEN Return(h)
                    ELSE /\ pc' = "search"
                         /\ hr' = h
                         /\ UNCHANGED jpegAlive
  /\ UNCHANGED <<streamData, it, jpegData, wic, misuse, frame, stride, thumb,
                 phbmp, pdwAlpha>>
  /\ UNCHANGED <<dllVars, thumbVars, callVars>>

\* auto it = std::search(...); if (it == buffer.end()) return E_FAIL;
GT_Search ==
  /\ pc = "search"
  /\ LET m == Search(buffer)
         h == IF m = Len(buffer) THEN "E_FAIL" ELSE hr
     IN  /\ it' = m
         /\ steps' = Append(steps, Step("Search", h))
         /\ IF m = Len(buffer)
            THEN Return(h)
            ELSE /\ pc' = "advance"
                 /\ UNCHANGED <<hr, jpegAlive>>
  /\ UNCHANGED <<buffer, jpegData, wic, misuse, frame, stride, thumb, phbmp,
                 pdwAlpha, extFail>>
  /\ UNCHANGED <<dllVars, thumbVars, streamVars, callVars>>

\* std::advance(it, endTag.length() + 1), before any comparison with end().
\* Moving a vector iterator beyond end() is undefined: a build with checked
\* iterators stops the process there, one without forms the position.
GT_Advance ==
  /\ pc = "advance"
  /\ \/ /\ it' = AdvancedIt(it)
        /\ pc' = "bound"
     \/ /\ AdvancedIt(it) > Len(buffer)
        /\ pc' = "crashed"
        /\ UNCHANGED it
  /\ UNCHANGED <<hr, buffer, jpegData, jpegAlive, wic, misuse, frame, stride,
                 thumb, phbmp, pdwAlpha, steps, extFail>>
  /\ UNCHANGED <<dllVars, thumbVars, streamVars, callVars>>

\* if (it >= buffer.end()) return E_FAIL;
\* std::vector<unsigned char> jpegData(it, buffer.end());
GT_Bound ==
  /\ pc = "bound"
  /\ IF NoDataAfterTag(it, buffer)
     THEN /\ steps' = Append(steps, Step("Bound", "E_FAIL"))
          /\ Return("E_FAIL")
          /\ UNCHANGED jpegData
     ELSE /\ steps' = Append(steps, Step("Bound", hr))
          /\ jpegData' = RangeToEnd(it, buffer)
          /\ jpegAlive' = TRUE
          /\ pc' = "cocreate"
          /\ UNCHANGED hr
  /\ UNCHANGED <<buffer, it, wic, misuse, frame, stride, thumb, phbmp,
                 pdwAlpha, extFail>>
  /\ UNCHANGED <<dllVars, thumbVars, streamVars, callVars>>

\* One call on the imaging component, lines 119-170: h is what it returned,
\* uses the pointers it is called through or given, gets the pointer it
\* sets on success; on failure the exit's Release calls, then return hr.
WicCall(name, at, next, h, uses, gets, ext) ==
  /\ pc = at
  /\ misuse' = (misuse \/ Misused(uses))
  /\ steps' = Append(steps, Step(name, h))
  /\ extFail' = (extFail \/ ext)
  /\ IF FAILED(h)
     THEN /\ wic' = ReleaseAll(wic, CleanupOn(name))
          /\ Return(h)
     ELSE /\ wic' = IF SUCCEEDED(h)
                    THEN [o \in WicObjects |-> IF o \in gets THEN "held" ELSE wic[o]]
                    ELSE wic
          /\ pc' = next
          /\ hr' = h
          /\ UNCHANGED jpegAlive
  /\ UNCHANGED <<buffer, it, jpegData, stride, thumb, phbmp, pdwAlpha>>
  /\ UNCHANGED <<dllVars, thumbVars, streamVars, callVars>>

\* hr = CoCreateInstance(CLSID_WICImagingFactory, ..., &pFactory);
GT_CoCreateInstance(ok) ==
  /\ WicCall("CoCreateInstance", "cocreate", "createstream",
             IF ok THEN "S_OK" ELSE "REGDB_E_CLASSNOTREG",
             {}, {"pFactory"}, ~ok)
  /\ UNCHANGED frame

\* hr = pFactory->CreateStream(&pStream);
GT_CreateStream(ok) ==
  /\ WicCall("CreateStream", "createstream", "initmem",
             IF ok THEN "S_OK" ELSE "E_OUTOFMEMORY",
             {"pFactory"}, {"pStream"}, ~ok)
  /\ UNCHANGED frame

\* hr = pStream->InitializeFromMemory(jpegData.data(), jpegData.size());
GT_InitializeFromMemory(ok) ==
  /\ WicCall("InitializeFromMemory", "initmem", "decoder",
             IF ok THEN "S_OK" ELSE "E_OUTOFMEMORY",
             {"pStream"}, {}, ~ok)
  /\ UNCHANGED frame

\* hr = pFactory->CreateDecoderFromStream(pStream, nullptr, ..., &pDecoder);
\* no decoder is found for bytes that are no image.
GT_CreateDecoder(ok) ==
  /\ WicCall("CreateDecoder", "decoder", "getframe",
             IF ~Recognised(jpegData) THEN "WINCODEC_ERR_COMPONENTNOTFOUND"
             ELSE IF ok THEN "S_OK" ELSE "E_OUTOFMEMORY",
             {"pFactory", "pStream"}, {"pDecoder"},
             Recognised(jpegData) /\ ~ok)
  /\ UNCHANGED frame

\* hr = pDecoder->GetFrame(0, &pFrame);
GT_GetFrame(ok) ==
  /\ WicCall("GetFrame", "getframe", "getsize",
             IF ok THEN "S_OK" ELSE "WINCODEC_ERR_BADHEADER",
             {"pDecoder"}, {"pFrame"}, ~ok)
  /\ UNCHANGED frame

\* hr = pFrame->GetSize(&width, &height);
GT_GetSize(ok) ==
  /\ WicCall("GetSize", "getsize", "alloc",
             IF ok THEN "S_OK" ELSE "E_FAIL",
             {"pFrame"}, {}, ~ok)
  /\ frame' = IF ok /\ Recognised(jpegData) THEN FrameOf(jpegData) ELSE frame

\* UINT stride = (width * 3 + 3) & ~3;  thumb.width = width;
\* thumb.height = height;  thumb.data.resize(height * stride);
GT_Alloc ==
  /\ pc = "alloc"
  /\ stride' = Stride(frame.w)
  /\ thumb' = [width |-> frame.w, height |-> frame.h,
               size |-> DataSize(frame.h, Stride(frame.w)),
               resized |-> TRUE, pixels |-> <<>>]
  /\ pc' = "copypixels"
  /\ UNCHANGED <<hr, buffer, it, jpegData, jpegAlive, wic, misuse, frame,
                 phbmp, pdwAlpha, steps, extFail>>
  /\ UNCHANGED <<dllVars, thumbVars, streamVars, callVars>>

\* A vector that cannot get its memory throws std::bad_alloc: in
\* buffer.insert (line 92), in jpegData's constructor (line 116) and in
\* thumb.data.resize (line 178).  Nothing catches it: the call does not
\* return, and no statement after the throwing one runs.
GT_BadAlloc ==
  /\ \/ pc = "read" /\ streamPos < Len(streamData)
     \/ pc = "bound" /\ ~NoDataAfterTag(it, buffer)
     \/ pc = "alloc"
  /\ pc' = "thrown"
  /\ UNCHANGED <<hr, buffer, it, jpegData, jpegAlive, wic, misuse, frame,
                 stride, thumb, phbmp, pdwAlpha, steps, extFail>>
  /\ UNCHANGED <<dllVars, thumbVars, streamVars, callVars>>

\* hr = pFrame->CopyPixels(nullptr, stride, thumb.data.size(), ...); the
\* four Release calls; if (FAILED(hr)) return hr;
GT_CopyPixels(ok) ==
  /\ pc = "copypixels"
  /\ LET accepted == CopyPixelsAccepts(frame, stride, thumb.size)
         h == IF ~accepted THEN "E_INVALIDARG"
              ELSE IF ok THEN "S_OK" ELSE "WINCODEC_ERR_BADIMAGE"
     IN  /\ misuse' = (misuse \/ Misused({"pFrame"}))
         /\ steps' = Append(steps, Step("CopyPixels", h))
         /\ extFail' = (extFail \/ (accepted /\ ~ok))
         /\ wic' = ReleaseAll(wic, CleanupOn("CopyPixels"))
         /\ IF FAILED(h)
            THEN /\ Return(h)
                 /\ UNCHANGED thumb
            ELSE /\ thumb' = IF h = "S_OK"
                             THEN [thumb EXCEPT !.pixels = jpegData]
                             ELSE thumb
                 /\ pc' = "bitmap"
                 /\ hr' = h
                 /\ UNCHANGED jpegAlive
  /\ UNCHANGED <<buffer, it, jpegData, frame, stride, phbmp, pdwAlpha>>
  /\ UNCHANGED <<dllVars, thumbVars, streamVars, callVars>>

\* *phbmp = CreateBitmap(thumb.width, thumb.height, 1, 24, thumb.data.data());
\* if (!*phbmp) return E_FAIL;  *pdwAlpha = WTSAT_RGB;  hr = S_OK; return hr;
GT_CreateBitmap(ok) ==
  /\ pc = "bitmap"
  /\ phbmp' = IF ok THEN "HBITMAP" ELSE "NULL"
  /\ pdwAlpha' = IF ok THEN "WTSAT_RGB" ELSE pdwAlpha
  /\ steps' = Append(steps, Step("CreateBitmap", IF ok THEN "S_OK" ELSE "E_FAIL"))
  /\ extFail' = (extFail \/ ~ok)
  /\ Return(IF ok THEN "S_OK" ELSE "E_FAIL")
  /\ UNCHANGED <<buffer, it, jpegData, wic, misuse, frame, stride, thumb>>
  /\ UNCHANGED <<dllVars, thumbVars, streamVars, callVars>>

\* The call has returned: the caller reads hr and its two outputs, and the
\* bitmap behind a handle holds the thumbnail's dimensions and pixels.
GT_Return ==
  /\ pc = "done"
  /\ pc' = "idle"
  /\ nCalls' = nCalls + 1
  /\ prevRet' = ret
  /\ ret' = [valid |-> TRUE, hr |-> hr, phbmp |-> phbmp, pdwAlpha |-> pdwAlpha,
             bitmap |-> IF phbmp = "HBITMAP" THEN thumb ELSE NoThumb,
             ext |-> extFail]
  /\ seenFail' = IF steps[Len(steps)].step \in {"Search", "Bound"}
                 THEN seenFail \cup {steps[Len(steps)]}
                 ELSE seenFail
  /\ hr' = "none"
  /\ buffer' = <<>>
  /\ it' = -1
  /\ jpegData' = <<>>
  /\ wic' = NoWic
  /\ misuse' = FALSE
  /\ frame' = NoFrame
  /\ stride' = BigZero
  /\ thumb' = NoThumb
  /\ phbmp' = "untouched"
  /\ pdwAlpha' = "untouched"
  /\ steps' = <<>>
  /\ extFail' = FALSE
  /\ UNCHANGED jpegAlive
  /\ UNCHANGED <<dllVars, thumbVars, streamVars>>

(***************************************************************************)
(* The specifications.                                                     *)
(***************************************************************************)
InitDll ==
  /\ g_cRefModule = 0
  /\ factories = [f \in 1..MaxFactories |-> FreeFactory]
  /\ serverLocks = 0
  /\ unloadAnswer = "none"

InitFrame ==
  /\ pc = "idle"
  /\ hr = "none"
  /\ buffer = <<>>
  /\ it = -1
  /\ jpegData = <<>>
  /\ jpegAlive = FALSE
  /\ wic = NoWic
  /\ misuse = FALSE
  /\ frame = NoFrame
  /\ stride = BigZero
  /\ thumb = NoThumb
  /\ phbmp = "untouched"
  /\ pdwAlpha = "untouched"
  /\ steps = <<>>
  /\ extFail = FALSE
  /\ nCalls = 0
  /\ ret = NoRet
  /\ prevRet = NoRet
  /\ seenFail = {}
  /\ streamPos = 0

\* The host has created provider This and holds the one reference to it;
\* the stream it will offer holds any document, its seek pointer at 0.
Init ==
  /\ InitDll
  /\ InitFrame
  /\ streamData \in Docs
  /\ thumbs = [t \in 1..MaxThumbs |->
                 IF t = This THEN ThumbAfterCreate(TRUE) ELSE FreeThumb]
  /\ streamRefs = [s \in 1..MaxStreams |-> 0]
  /\ lastInit = NoInit

Next ==
  \/ \E qiOk \in BOOLEAN : Initialize(This, 1, qiOk)
  \/ GT_Enter
  \/ \E ok \in BOOLEAN : GT_Read(ok)
  \/ GT_Search
  \/ GT_Advance
  \/ GT_Bound
  \/ \E ok \in BOOLEAN : GT_CoCreateInstance(ok)
  \/ \E ok \in BOOLEAN : GT_CreateStream(ok)
  \/ \E ok \in BOOLEAN : GT_InitializeFromMemory(ok)
  \/ \E ok \in BOOLEAN : GT_CreateDecoder(ok)
  \/ \E ok \in BOOLEAN : GT_GetFrame(ok)
  \/ \E ok \in BOOLEAN : GT_GetSize(ok)
  \/ GT_Alloc
  \/ GT_BadAlloc
  \/ \E ok \in BOOLEAN : GT_CopyPixels(ok)
  \/ \E ok \in BOOLEAN : GT_CreateBitmap(ok)
  \/ GT_Return

Spec == Init /\ [][Next]_vars

\* The module just loaded: no object yet.
InitObjects ==
  /\ InitDll
  /\ InitFrame
  /\ streamData = <<>>
  /\ thumbs = [t \in 1..MaxThumbs |-> FreeThumb]
  /\ streamRefs = [s \in 1..MaxStreams |-> 0]
  /\ lastInit = NoInit

NextDll ==
  \/ \E clsidOk, allocOk, riidOk \in BOOLEAN :
       DllGetClassObject(clsidOk, allocOk, riidOk)
  \/ \E f \in 1..MaxFactories : FactoryAddRef(f)
  \/ \E f \in 1..MaxFactories : FactoryRelease(f)
  \/ \E f \in 1..MaxFactories : \E punkOuter, allocOk, riidOk \in BOOLEAN :
       FactoryCreateInstance(f, punkOuter, allocOk, riidOk)
  \/ \E f \in 1..MaxFactories : \E fLock \in BOOLEAN : LockServer(f, fLock)
  \/ DllCanUnloadNow
  \/ \E t \in 1..MaxThumbs : ThumbAddRef(t)
  \/ \E t \in 1..MaxThumbs : ThumbRelease(t)

SpecDll == InitObjects /\ [][NextDll]_vars

NextInit ==
  \/ \E allocOk, riidOk \in BOOLEAN : CKisekiThumb_CreateInstance(allocOk, riidOk)
  \/ \E t \in 1..MaxThumbs : ThumbAddRef(t)
  \/ \E t \in 1..MaxThumbs : ThumbRelease(t)
  \/ \E t \in 1..MaxThumbs : \E s \in 1..MaxStreams : \E qiOk \in BOOLEAN :
       Initialize(t, s, qiOk)

SpecInit == InitObjects /\ [][NextInit]_vars

(***************************************************************************)
(* The vocabulary of the claims.                                           *)
(***************************************************************************)
MarkerOccursAt(doc, m) ==
  /\ m + Len(endTag) <= Len(doc)
  /\ SubSeq(doc, m + 1, m + Len(endTag)) = endTag

MarkerOccurs(doc) == \E m \in 0..Len(doc) : MarkerOccursAt(doc, m)

\* The offset m of the first occurrence.
FirstOccurrence(doc) ==
  CHOOSE m \in 0..Len(doc) :
    MarkerOccursAt(doc, m) /\ \A k \in 0..(m - 1) : ~MarkerOccursAt(doc, k)

IsFailure(h) == h \notin {"S_OK", "S_FALSE"}

StepRan(name) == \E i \in DOMAIN steps : steps[i].step = name
StepSucceeded(name) ==
  \E i \in DOMAIN steps : steps[i].step = name /\ ~IsFailure(steps[i].hr)
LastStep == steps[Len(steps)]

\* The whole stream was read into buffer and the locator has finished, by
\* returning or by going on to the decoder (it has not if the process
\* ran out of memory while the payload was being copied).
LocateRan ==
  /\ StepSucceeded("Read")
  /\ pc \notin {"search", "advance", "bound"}
  /\ pc = "thrown" => StepRan("Bound")

\* The true integer values, not reduced modulo 2^32.
TrueRow(w) == BigMulDigit(w, 3)
TrueStride(w) == AndNot3(BigAdd(TrueRow(w), Big3))
TrueSize(w, h) == BigMul(h, TrueStride(w))

DimsValid(f) ==
  /\ f.w # BigZero
  /\ f.h # BigZero
  /\ FitsUint(TrueRow(f.w))
  /\ FitsUint(TrueStride(f.w))
  /\ FitsUint(TrueSize(f.w, f.h))

(***************************************************************************)
(* The claims.                                                             *)
(***************************************************************************)
\* C1: the payload locator never forms a position beyond len(document):
\* the offset m + len(marker) + 1 is compared with len(document) before
\* the cursor is moved to it.  (Refuted: std::advance comes first.)
C1_CursorNeverBeyondEnd == it <= Len(buffer)

\* C2: when the marker's first occurrence is at m and m + 10 < len(document),
\* locate succeeds and the payload handed to the decoder is exactly
\* document[m + 10 .. len(document)), later occurrences notwithstanding.
C2_PayloadFollowsFirstMarker ==
  (LocateRan /\ MarkerOccurs(buffer)
     /\ FirstOccurrence(buffer) + 10 < Len(buffer))
  => /\ StepSucceeded("Bound")
     /\ jpegData = SubSeq(buffer, FirstOccurrence(buffer) + 11, Len(buffer))

\* C2's case: the marker occurs twice, the payload starts after the first
\* occurrence and its separator and holds the second occurrence.
C2_Witness ==
  /\ pc = "decoder"
  /\ MarkerOccurs(buffer)
  /\ \E k \in 0..Len(buffer) :
       k > FirstOccurrence(buffer) /\ MarkerOccursAt(buffer, k)
  /\ Len(jpegData) = Len(buffer) - FirstOccurrence(buffer) - 10
  /\ MarkerOccurs(jpegData)

\* C3: a locate failure tells its cause: MarkerNotFound exactly when the
\* marker occurs nowhere, NoPayload exactly when m + 10 >= len(document),
\* the caller can tell the two apart, and the decoder is not invoked.
\* (Refuted: both exits return E_FAIL.)
C3_FailureKindIdentifiesCause ==
  /\ (pc = "done" /\ StepSucceeded("Read")) =>
       /\ (LastStep.step = "Search") <=> ~MarkerOccurs(buffer)
       /\ (LastStep.step = "Bound" /\ IsFailure(LastStep.hr)) <=>
            (MarkerOccurs(buffer) /\ FirstOccurrence(buffer) + 10 >= Len(buffer))
       /\ LastStep.step \in {"Search", "Bound"} /\ IsFailure(LastStep.hr)
            => ~StepRan("CoCreateInstance")
  /\ \A a, b \in seenFail : a.step # b.step => a.hr # b.hr

\* C4: two successive GetThumbnail calls on the same initialized provider,
\* the stream's content unchanged and no collaborator failing on its own,
\* return the same outcome and the same bitmap.  (Refuted: the second call
\* reads from where the first left the seek pointer.)
C4_SecondCallSameAsFirst ==
  (prevRet.valid /\ ret.valid /\ ~prevRet.ext /\ ~ret.ext)
  => /\ ret.hr = prevRet.hr
     /\ ret.phbmp = prevRet.phbmp
     /\ ret.pdwAlpha = prevRet.pdwAlpha
     /\ ret.bitmap = prevRet.bitmap

\* C5: when the frame reports a zero width or height, or dimensions whose
\* width * 3, stride or height * stride does not fit 32 bits, decode fails
\* before the pixel buffer is sized and before pixels are copied.
\* (Refuted: there is no check between GetSize and resize.)
C5_InvalidDimensionsRejectedFirst ==
  (StepSucceeded("GetSize") /\ ~DimsValid(frame))
  => /\ ~thumb.resized
     /\ ~StepRan("CopyPixels")
     /\ pc = "done" => IsFailure(hr)

\* C6: whenever decode succeeds, stride is the true ((width * 3) + 3) & ~3
\* and the buffer length the true height * stride, no product having
\* wrapped.  (Refuted: the products wrap and nothing in the code checks.)
C6_StrideAndSizeNotWrapped ==
  StepSucceeded("CopyPixels")
  => /\ stride = TrueStride(frame.w)
     /\ thumb.size = TrueSize(frame.w, frame.h)

\* C7 as stated: the call stops at the first failing step and returns its
\* failure, and on every failure return *phbmp and *pdwAlpha are untouched.
\* (Refuted: *phbmp is written before it is tested.)
C7_OutputsUntouchedOnFailure ==
  (pc = "done" /\ hr # "S_OK") =>
     /\ phbmp = "untouched"
     /\ pdwAlpha = "untouched"

\* C7 as amended: the call stops at the first failing step and returns that
\* step's failure; it returns S_OK only when every step succeeded, with a
\* bitmap in *phbmp and WTSAT_RGB in *pdwAlpha; on every failure return
\* *pdwAlpha is untouched and *phbmp is untouched or, when CreateBitmap was
\* the failing step, NULL: never a bitmap.
C7_NoPartialSuccess ==
  /\ \A i \in 1..(Len(steps) - 1) : ~IsFailure(steps[i].hr)
  /\ pc = "done" =>
       /\ hr # "S_FALSE"
       /\ hr = "S_OK" =>
            /\ LastStep.step = "CreateBitmap"
            /\ ~IsFailure(LastStep.hr)
            /\ phbmp = "HBITMAP"
            /\ pdwAlpha = "WTSAT_RGB"
       /\ hr # "S_OK" =>
            /\ IsFailure(LastStep.hr)
            /\ hr = LastStep.hr
            /\ pdwAlpha = "untouched"
            /\ phbmp = IF LastStep.step = "CreateBitmap" THEN "NULL"
                       ELSE "untouched"

\* C7's case: CreateBitmap failed after every other step succeeded.
C7_Witness ==
  /\ pc = "done"
  /\ hr = "E_FAIL"
  /\ LastStep.step = "CreateBitmap"
  /\ phbmp = "NULL"
  /\ pdwAlpha = "untouched"

\* C8: DllCanUnloadNow answers S_OK only if no class factory and no
\* CKisekiThumb is alive and no server lock is held.  (Refuted:
\* CKisekiThumb never counts itself in g_cRefModule.)
C8_UnloadOnlyWithoutObjects ==
  unloadAnswer = "S_OK" =>
     /\ \A f \in 1..MaxFactories : factories[f].state # "alive"
     /\ \A t \in 1..MaxThumbs : thumbs[t].state # "alive"
     /\ serverLocks = 0

\* C9: once an Initialize has stored a stream, every later Initialize on
\* that provider returns E_UNEXPECTED, takes no reference on the stream it
\* is offered and leaves the stored one; a provider takes at most one
\* stream reference and gives it back exactly once, when it is deleted.
C9_InitializedOnce ==
  /\ lastInit.before # 0 =>
       /\ lastInit.hr = "E_UNEXPECTED"
       /\ lastInit.after = lastInit.before
       /\ lastInit.refs = 0
  /\ \A t \in 1..MaxThumbs :
       /\ thumbs[t].taken <= 1
       /\ thumbs[t].given <= thumbs[t].taken
       /\ thumbs[t].state = "alive" =>
            /\ thumbs[t].given = 0
            /\ (thumbs[t].taken = 1) <=> (thumbs[t]._pStream # 0)
       /\ thumbs[t].state = "deleted" => thumbs[t].given = thumbs[t].taken
  /\ \A s \in 1..MaxStreams :
       streamRefs[s] = Cardinality({t \in 1..MaxThumbs :
                          thumbs[t].state = "alive" /\ thumbs[t]._pStream = s})

\* C9's case: an initialized provider was offered another stream, refused
\* it, and has since been deleted, giving its one reference back.
C9_Witness ==
  /\ lastInit.hr = "E_UNEXPECTED"
  /\ lastInit.before # 0
  /\ lastInit.s # lastInit.before
  /\ thumbs[lastInit.t].state = "deleted"
  /\ thumbs[lastInit.t].given = 1
  /\ streamRefs[lastInit.before] = 0

\* C10: no WIC pointer is used or released unless it holds, the payload
\* buffer lives as long as the WIC stream initialized from it holds, and
\* when GetThumbnail returns every WIC object acquired in the call (those
\* whose acquiring step succeeded) has been released once and no other.
C10_WicAcquireUseRelease ==
  /\ ~misuse
  /\ \A o \in WicObjects : wic[o] # "over"
  /\ wic["pStream"] = "held" => jpegAlive
  /\ pc = "done" =>
       /\ wic["pFactory"] =
            IF StepSucceeded("CoCreateInstance") THEN "released" ELSE "null"
       /\ wic["pStream"] =
            IF StepSucceeded("CreateStream") THEN "released" ELSE "null"
       /\ wic["pDecoder"] =
            IF StepSucceeded("CreateDecoder") THEN "released" ELSE "null"
       /\ wic["pFrame"] =
            IF StepSucceeded("GetFrame") THEN "released" ELSE "null"

\* C10's case: GetSize failed with all four objects acquired, and the
\* failure exit released each.
C10_Witness ==
  /\ pc = "done"
  /\ LastStep.step = "GetSize"
  /\ IsFailure(hr)
  /\ \A o \in WicObjects : wic[o] = "released"
  /\ ~jpegAlive

=============================================================================
